---- MODULE Spec2Model ----
(***************************************************************************)
(* Model of the two data-integration pipelines of dc-south-east-study:     *)
(*   - src/src/get_study_data.py : get_ejscreen_data, the block-group      *)
(*     batch loop fetch_multiple_block_groups and main                     *)
(*   - src/src/clean_data.py     : merge_data_with_shapefile (existence    *)
(*     checks, read_csv / read_file, key normalization, left merge,        *)
(*     match diagnostics, save)                                            *)
(***************************************************************************)
EXTENDS Integers, Sequences, FiniteSets, TLC

VARIABLES
    pc,          \* position of the running entry point
    ids,         \* block_group_ids argument of fetch_multiple_block_groups
    delay,       \* delay argument of fetch_multiple_block_groups
    i,           \* loop counter of enumerate(block_group_ids, 1): next index
    data_list,   \* data_list accumulated by the batch loop
    log,         \* observable effects in order: HTTP GETs and time.sleep calls
    lastResp,    \* the HTTP outcome the last get_ejscreen_data call received
    lastRet,     \* what the last get_ejscreen_data call did (row / None / raise)
    outcomes,    \* the HTTP outcome each request of the batch received, in order
    result,      \* the value returned by fetch_multiple_block_groups
    saved,       \* CSV files written by save_dataframe, in order
    shp_exists,     \* shapefile_path.exists()
    csv_exists,     \* data_path.exists()
    boundaries,     \* the shapefile: the geoid_column value of each feature
    table,          \* the CSV file: the data_id_column cell text of each row
    geoid_column,   \* geoid_column argument
    data_id_column, \* data_id_column argument
    effects,        \* file-system effects of merge_data_with_shapefile, in order
    merged,         \* merged_gdf: the rows of the merged frame
    report,         \* the "Matched X out of Y features" diagnostic
    raised,         \* the exception merge_data_with_shapefile raised, if any
    nraw,           \* a raw identifier value handed to the normalizer
    nout            \* the normalizer's results for nraw

fetchVarsButPc == <<ids, delay, i, data_list, log, lastResp, lastRet, outcomes, result, saved>>
fetchVars == <<pc, ids, delay, i, data_list, log, lastResp, lastRet, outcomes, result, saved>>

mergeVars == <<shp_exists, csv_exists, boundaries, table, geoid_column, data_id_column,
               effects, merged, report, raised>>
normVars == <<nraw, nout>>
vars == <<fetchVars, mergeVars, normVars>>

(***************************************************************************)
(* Bounds                                                                  *)
(***************************************************************************)
MaxIds == 3
MaxBoundaries == 2
MaxRows == 2
MaxStrLen == 4

(***************************************************************************)
(* Program constants                                                       *)
(***************************************************************************)
API_REQUEST_DELAY == 1
HTTP_TIMEOUT == 30

AreaIds == {"110010074011", "110010074012"}
Delays == {API_REQUEST_DELAY, 2}
DC_CITY_NAME == "Washington"
DC_AREA_ID == "1150000"

(***************************************************************************)
(* Python / JSON values.  JSON null and Python None are the same value.    *)
(***************************************************************************)
None == [t |-> "null"]
JNum(n) == [t |-> "num", v |-> n]
JList == [t |-> "list"]
JObj(m) == [t |-> "obj", m |-> m]
EmptyObj == JObj(<<>>)

\* The object holding exactly the key/value pairs of the set `pairs`.
MkObj(pairs) ==
    JObj([k \in {p[1] : p \in pairs} |-> (CHOOSE p \in pairs : p[1] = k)[2]])

\* A key that is absent, or present with one of the values of `choices`.
Opt(k, choices) == {{}} \cup {{<<k, v>>} : v \in choices}

DemoKeys == {"TOTALPOP", "PCT_MINORITY", "PER_CAP_INC", "P_EMP_STAT_UNEMPLOYED"}
MainKeys == {"RAW_E_PM25", "RAW_E_TRAFFIC", "RAW_E_DIESEL"}
ExtrasKeys == {"RAW_HI_LIFEEXP"}

\* Sub-objects a response may carry: empty, one key, every key.
SubObjs(keys) ==
    { EmptyObj,
      MkObj({<<CHOOSE k \in keys : TRUE, JNum(7)>>}),
      MkObj({<<k, JNum(7)>> : k \in keys}) }

NonObjs == {None, JList}

DataObjs ==
    { MkObj(a \cup b) :
        a \in Opt("demographics", SubObjs(DemoKeys) \cup NonObjs),
        b \in Opt("main", SubObjs(MainKeys) \cup {None}) }

\* Response bodies sent with a success status.
JsonBodies ==
    { MkObj(a \cup b) :
        a \in Opt("data", DataObjs \cup NonObjs),
        b \in Opt("extras", SubObjs(ExtrasKeys) \cup {None}) }
    \cup NonObjs \cup {JNum(0)}

InvalidJson == [t |-> "invalid"]
Bodies == JsonBodies \cup {InvalidJson}

(***************************************************************************)
(* HTTP outcomes of requests.get                                           *)
(***************************************************************************)
NetErrors == {[kind |-> "connection_error"], [kind |-> "timeout"]}
HttpResp(code, body) == [kind |-> "response", status |-> code, body |-> body]
ErrorStatuses == {404, 500}
Responses ==
    NetErrors
    \cup {HttpResp(c, None) : c \in ErrorStatuses}
    \cup {HttpResp(200, b) : b \in Bodies}

\* The outcomes the batch loop is driven with (a subset of Responses).
FullBody ==
    MkObj({ <<"data", MkObj({ <<"demographics", MkObj({<<k, JNum(7)>> : k \in DemoKeys})>>,
                              <<"main", MkObj({<<k, JNum(7)>> : k \in MainKeys})>> })>>,
            <<"extras", MkObj({<<k, JNum(7)>> : k \in ExtrasKeys})>> })
BatchResponses ==
    NetErrors
    \cup {HttpResp(500, None)}
    \cup {HttpResp(200, b) : b \in {FullBody, EmptyObj, MkObj({<<"data", None>>})}}

(***************************************************************************)
(* get_ejscreen_data                                                       *)
(***************************************************************************)
Returned(v) == [how |-> "return", v |-> v]
Raised(e) == [how |-> "raise", exc |-> e]

\* Whether a value has a .get method (only dict does).
HasGet(v) == v.t = "obj"

\* dict.get(k, default)
DictGet(d, k, default) == IF k \in DOMAIN d.m THEN d.m[k] ELSE default

\* response.raise_for_status(): HTTPError for 4xx and 5xx.
RaisesForStatus(resp) == resp.status >= 400 /\ resp.status < 600

Flatten(area_id, demographics, main_stats, extras) ==
    [ area_id                   |-> area_id,
      total_population          |-> DictGet(demographics, "TOTALPOP", None),
      percent_minority          |-> DictGet(demographics, "PCT_MINORITY", None),
      per_capita_income         |-> DictGet(demographics, "PER_CAP_INC", None),
      unemployment_rate         |-> DictGet(demographics, "P_EMP_STAT_UNEMPLOYED", None),
      pm25_air_quality          |-> DictGet(main_stats, "RAW_E_PM25", None),
      traffic_exposure          |-> DictGet(main_stats, "RAW_E_TRAFFIC", None),
      diesel_particulate_matter |-> DictGet(main_stats, "RAW_E_DIESEL", None),
      life_expectancy           |-> DictGet(extras, "RAW_HI_LIFEEXP", None) ]

\* Lines 38-55: the extraction from a parsed body.  Any .get on a value that
\* is not a dict raises AttributeError, which the except clause does not catch.
ExtractFields(data, area_id) ==
    IF ~HasGet(data) THEN Raised("AttributeError")
    ELSE LET d1 == DictGet(data, "data", EmptyObj) IN
    IF ~HasGet(d1) THEN Raised("AttributeError")
    ELSE LET demographics == DictGet(d1, "demographics", EmptyObj)
             main_stats   == DictGet(d1, "main", EmptyObj)
             extras       == DictGet(data, "extras", EmptyObj) IN
    IF ~HasGet(demographics) \/ ~HasGet(main_stats) \/ ~HasGet(extras)
    THEN Raised("AttributeError")
    ELSE Returned(Flatten(area_id, demographics, main_stats, extras))

\* get_ejscreen_data(params, area_id) when requests.get meets outcome `resp`.
\* ConnectionError, Timeout, HTTPError and requests' JSONDecodeError are all
\* RequestException: caught, None returned.
get_ejscreen_data(resp, area_id) ==
    IF resp.kind # "response" THEN Returned(None)
    ELSE IF RaisesForStatus(resp) THEN Returned(None)
    ELSE IF resp.body = InvalidJson THEN Returned(None)
    ELSE ExtractFields(resp.body, area_id)

Params(namestr, areatype, areaid) ==
    [ namestr |-> namestr, geometry |-> "", distance |-> "", unit |-> "9035",
      areatype |-> areatype, areaid |-> areaid, f |-> "json" ]

BgParams(area_id) == Params(area_id, "blockgroup", area_id)
CityParams(city, area_id) == Params(city, "city", area_id)

GetEvent(params) == [op |-> "get", params |-> params, timeout |-> HTTP_TIMEOUT]
SleepEvent(secs) == [op |-> "sleep", secs |-> secs]

\* Python truthiness of what get_ejscreen_data returns: None is falsy, a row
\* (a dict of nine keys) is truthy.
Truthy(v) == v # None

(***************************************************************************)
(* fetch_multiple_block_groups                                             *)
(***************************************************************************)
\* A variant that puts a fetched row in front of the rows collected so far.
CollectPrepend(list, r) == IF Truthy(r) THEN <<r>> \o list ELSE list

\* if result: data_list.append(result)
Collect(list, r) == IF Truthy(r) THEN Append(list, r) ELSE list

\* A variant that sleeps after every request, the last one included.
SleepsAfterEvery(k, total) == k <= total

\* if i < total: time.sleep(delay)
SleepsAfter(k, total) == k < total

RowColumns ==
    << "area_id", "total_population", "percent_minority", "per_capita_income",
       "unemployment_rate", "pm25_air_quality", "traffic_exposure",
       "diesel_particulate_matter", "life_expectancy" >>

\* pd.DataFrame() and pd.DataFrame(data_list)
DataFrame(columns, rows) == [columns |-> columns, rows |-> rows]
EmptyDataFrame == DataFrame(<<>>, <<>>)

\* Lines 133-137.
ReturnFrame(list) ==
    IF list = <<>> THEN EmptyDataFrame ELSE DataFrame(RowColumns, list)

\* DataFrame.empty
IsEmptyFrame(df) == df.columns = <<>> \/ df.rows = <<>>

NoResult == [columns |-> <<>>, rows |-> <<>>, pending |-> TRUE]
NoCall == [how |-> "none"]
NoResp == [kind |-> "none"]

\* The merge and normalizer entry points not running.
IdleMerge ==
    /\ shp_exists = FALSE
    /\ csv_exists = FALSE
    /\ boundaries = <<>>
    /\ table = <<>>
    /\ geoid_column = "GEOID"
    /\ data_id_column = "ID"
    /\ effects = <<>>
    /\ merged = <<>>
    /\ report = [matched |-> 0, total |-> 0]
    /\ raised = "none"

IdleNorm ==
    /\ nraw = [t |-> "str", s |-> <<>>]
    /\ nout = <<>>

RECURSIVE SeqsUpTo(_, _)
SeqsUpTo(S, n) ==
    IF n = 0 THEN {<<>>}
    ELSE LET shorter == SeqsUpTo(S, n - 1) IN
         shorter \cup {Append(s, x) : s \in {t \in shorter : Len(t) = n - 1}, x \in S}

InitBatch ==
    /\ pc = "loop"
    /\ ids \in SeqsUpTo(AreaIds, MaxIds)
    /\ delay \in Delays
    /\ i = 1
    /\ data_list = <<>>
    /\ log = <<>>
    /\ lastResp = NoResp
    /\ lastRet = NoCall
    /\ outcomes = <<>>
    /\ result = NoResult
    /\ saved = <<>>
    /\ IdleMerge
    /\ IdleNorm

\* One iteration of the for loop (lines 121-131).
FetchIteration ==
    /\ pc = "loop"
    /\ i <= Len(ids)
    /\ \E resp \in BatchResponses :
         LET bg_id == ids[i]
             ret == get_ejscreen_data(resp, bg_id)
             got == Append(log, GetEvent(BgParams(bg_id)))
         IN /\ lastResp' = resp
            /\ lastRet' = ret
            /\ outcomes' = Append(outcomes, resp)
            /\ IF ret.how = "raise"
               THEN /\ pc' = "raised"
                    /\ log' = got
                    /\ UNCHANGED <<i, data_list>>
               ELSE /\ data_list' = Collect(data_list, ret.v)
                    /\ log' = IF SleepsAfter(i, Len(ids))
                              THEN Append(got, SleepEvent(delay)) ELSE got
                    /\ i' = i + 1
                    /\ pc' = "loop"
    /\ UNCHANGED <<ids, delay, result, saved>>
    /\ UNCHANGED <<mergeVars, normVars>>

\* Loop exhausted: lines 133-137.
ReturnBatch ==
    /\ pc = "loop"
    /\ i > Len(ids)
    /\ result' = ReturnFrame(data_list)
    /\ pc' = "returned"
    /\ UNCHANGED <<ids, delay, i, data_list, log, lastResp, lastRet, outcomes, saved>>
    /\ UNCHANGED <<mergeVars, normVars>>

\* main, lines 158-167: save the batch unless the frame is empty.
MainSaveBatch ==
    /\ pc = "returned"
    /\ saved' = IF ~IsEmptyFrame(result)
                THEN Append(saved, [path |-> "anacostia_ejscreen_data.csv", df |-> result])
                ELSE saved
    /\ pc' = "city"
    /\ UNCHANGED <<ids, delay, i, data_list, log, lastResp, lastRet, outcomes, result>>
    /\ UNCHANGED <<mergeVars, normVars>>

\* main, lines 173-184: the single city fetch.
MainFetchCity ==
    /\ pc = "city"
    /\ \E resp \in BatchResponses :
         LET ret == get_ejscreen_data(resp, DC_AREA_ID) IN
         /\ lastResp' = resp
         /\ lastRet' = ret
         /\ log' = Append(log, GetEvent(CityParams(DC_CITY_NAME, DC_AREA_ID)))
         /\ IF ret.how = "raise"
            THEN pc' = "raised" /\ UNCHANGED saved
            ELSE /\ pc' = "done"
                 /\ saved' = IF Truthy(ret.v)
                             THEN Append(saved, [path |-> "dc_ejscreen_data.csv",
                                                 df |-> DataFrame(RowColumns, <<ret.v>>)])
                             ELSE saved
    /\ UNCHANGED <<ids, delay, i, data_list, outcomes, result>>
    /\ UNCHANGED <<mergeVars, normVars>>

NextBatch == FetchIteration \/ ReturnBatch \/ MainSaveBatch \/ MainFetchCity

SpecBatch == InitBatch /\ [][NextBatch]_vars

(***************************************************************************)
(* A single fetch: get_ejscreen_data_bg / get_ejscreen_data_city called    *)
(* once, against every outcome of Responses.                               *)
(***************************************************************************)
InitFetch ==
    /\ pc = "single"
    /\ ids = <<>>
    /\ delay = API_REQUEST_DELAY
    /\ i = 1
    /\ data_list = <<>>
    /\ log = <<>>
    /\ lastResp = NoResp
    /\ lastRet = NoCall
    /\ outcomes = <<>>
    /\ result = NoResult
    /\ saved = <<>>
    /\ IdleMerge
    /\ IdleNorm

\* get_ejscreen_data_bg(area_id), lines 83-101.
FetchBg ==
    /\ pc = "single"
    /\ \E area_id \in AreaIds, resp \in Responses :
         /\ lastResp' = resp
         /\ lastRet' = get_ejscreen_data(resp, area_id)
         /\ log' = Append(log, GetEvent(BgParams(area_id)))
    /\ pc' = "fetched"
    /\ UNCHANGED <<ids, delay, i, data_list, outcomes, result, saved>>
    /\ UNCHANGED <<mergeVars, normVars>>

\* get_ejscreen_data_city(city, area_id), lines 61-80.
FetchCity ==
    /\ pc = "single"
    /\ \E resp \in Responses :
         /\ lastResp' = resp
         /\ lastRet' = get_ejscreen_data(resp, DC_AREA_ID)
         /\ log' = Append(log, GetEvent(CityParams(DC_CITY_NAME, DC_AREA_ID)))
    /\ pc' = "fetched"
    /\ UNCHANGED <<ids, delay, i, data_list, outcomes, result, saved>>
    /\ UNCHANGED <<mergeVars, normVars>>

NextFetch == FetchBg \/ FetchCity

SpecFetch == InitFetch /\ [][NextFetch]_vars

(***************************************************************************)
(* Strings are sequences of one-character strings.  Values of a frame      *)
(* column are Python values: str, int, float, NaN.                         *)
(***************************************************************************)
Digits == <<"0", "1", "2", "3", "4", "5", "6", "7", "8", "9">>
DigitSet == {Digits[k] : k \in 1..10}
Dot == "."

PStr(s) == [t |-> "str", s |-> s]
PInt(n) == [t |-> "int", n |-> n]
PFloat(ip, frac) == [t |-> "float", ip |-> ip, frac |-> frac]
NaN == [t |-> "nan"]

DigitVal(c) == (CHOOSE k \in 1..10 : Digits[k] = c) - 1

\* The value of a run of decimal digits (0 for the empty run).
RECURSIVE DigitsToInt(_)
DigitsToInt(s) ==
    IF s = <<>> THEN 0
    ELSE 10 * DigitsToInt(SubSeq(s, 1, Len(s) - 1)) + DigitVal(s[Len(s)])

\* str(n) for an int n >= 0.
RECURSIVE IntToStr(_)
IntToStr(n) ==
    IF n < 10 THEN <<Digits[n + 1]>>
    ELSE Append(IntToStr(n \div 10), Digits[(n % 10) + 1])

RECURSIVE TrimTrailingZeros(_)
TrimTrailingZeros(s) ==
    IF s # <<>> /\ s[Len(s)] = "0" THEN TrimTrailingZeros(SubSeq(s, 1, Len(s) - 1))
    ELSE s

\* A variant of str.split(sep) that cuts at the last separator only.
RECURSIVE SplitLast(_, _)
SplitLast(s, sep) ==
    LET at == {p \in 1..Len(s) : s[p] = sep} IN
    IF at = {} THEN <<s>>
    ELSE LET p == CHOOSE q \in at : \A r \in at : r <= q IN
         <<SubSeq(s, 1, p - 1), SubSeq(s, p + 1, Len(s))>>

\* str.split(sep) for a one-character separator.
RECURSIVE Split(_, _)
Split(s, sep) ==
    LET at == {p \in 1..Len(s) : s[p] = sep} IN
    IF at = {} THEN <<s>>
    ELSE LET p == CHOOSE q \in at : \A r \in at : q <= r IN
         <<SubSeq(s, 1, p - 1)>> \o Split(SubSeq(s, p + 1, Len(s)), sep)

\* str(v), which is what astype(str) applies to every value of a column.
\* A float prints its integral part, a point and its fraction ("1.0").
PyStr(v) ==
    CASE v.t = "str"   -> v.s
      [] v.t = "int"   -> IntToStr(v.n)
      [] v.t = "float" -> IntToStr(v.ip) \o <<Dot>> \o (IF v.frac = <<>> THEN <<"0">> ELSE v.frac)
      [] v.t = "nan"   -> <<"n", "a", "n">>

(***************************************************************************)
(* The Identifier Normalizer (clean_data.py lines 56-57)                   *)
(***************************************************************************)
\* A variant that keeps the whole string form.
AsTypeStrOnly(v) == PStr(PyStr(v))

\* data_df[col].astype(str).str.split(".").str[0], for one value.
NormalizeTableValue(v) == PStr(Split(PyStr(v), Dot)[1])

\* tracts_gdf[col].astype(str), for one value.
NormalizeBoundaryValue(v) == PStr(PyStr(v))

(***************************************************************************)
(* pd.read_csv: the dtype of a column is inferred from all of its cells.   *)
(***************************************************************************)
IsIntText(s) == s # <<>> /\ \A p \in 1..Len(s) : s[p] \in DigitSet

IsFloatText(s) ==
    /\ Cardinality({p \in 1..Len(s) : s[p] = Dot}) = 1
    /\ \E p \in 1..Len(s) : s[p] \in DigitSet
    /\ \A p \in 1..Len(s) : s[p] \in DigitSet \cup {Dot}

\* An empty cell is a missing value.
IsNaText(s) == s = <<>>

ColumnDtype(cells) ==
    IF Len(cells) = 0 THEN "object"
    ELSE IF \A k \in 1..Len(cells) : IsIntText(cells[k]) THEN "int64"
    ELSE IF \A k \in 1..Len(cells) :
              IsIntText(cells[k]) \/ IsFloatText(cells[k]) \/ IsNaText(cells[k])
         THEN "float64"
    ELSE "object"

ParseFloat(s) ==
    LET parts == Split(s, Dot) IN
    PFloat(DigitsToInt(parts[1]),
           IF Len(parts) > 1 THEN TrimTrailingZeros(parts[2]) ELSE <<>>)

ParseCell(dtype, s) ==
    IF IsNaText(s) THEN NaN
    ELSE CASE dtype = "int64"   -> PInt(DigitsToInt(s))
           [] dtype = "float64" -> ParseFloat(s)
           [] dtype = "object"  -> PStr(s)

\* The values of a CSV column as read_csv loads them.
ReadCsvColumn(cells) ==
    [k \in 1..Len(cells) |-> ParseCell(ColumnDtype(cells), cells[k])]

(***************************************************************************)
(* merge_data_with_shapefile                                               *)
(***************************************************************************)
GeometryColumn == "geometry"
ValueColumn == "LOWINCPCT"

Geometry(k) == [t |-> "geom", n |-> k]

LeftCols == {geoid_column, GeometryColumn}
RightCols == {data_id_column, ValueColumn}

\* gpd.read_file(shapefile_path): feature k carries geometry k.
ReadShapefile(keys) ==
    [k \in 1..Len(keys) |->
        [c \in LeftCols |-> IF c = geoid_column THEN keys[k] ELSE Geometry(k)]]

\* pd.read_csv(data_path): row k carries the indicator value k.
ReadCsv(cells) ==
    LET col == ReadCsvColumn(cells) IN
    [k \in 1..Len(cells) |->
        [c \in RightCols |-> IF c = data_id_column THEN col[k] ELSE PInt(k)]]

\* A variant that leaves the table's key column as loaded.
KeepTable(rows) == rows

\* Lines 56-57 applied to the two frames.
NormalizeTable(rows) ==
    [k \in 1..Len(rows) |->
        [rows[k] EXCEPT ![data_id_column] = NormalizeTableValue(rows[k][data_id_column])]]

NormalizeBoundaries(rows) ==
    [k \in 1..Len(rows) |->
        [rows[k] EXCEPT ![geoid_column] = NormalizeBoundaryValue(rows[k][geoid_column])]]

\* One merged row.  A column present on both sides under the same name (the
\* join key when left_on = right_on) is a single column with the left value.
Combine(l, r) ==
    [c \in DOMAIN l \cup DOMAIN r |-> IF c \in DOMAIN l THEN l[c] ELSE r[c]]

NullRow(cols) == [c \in cols |-> NaN]

RECURSIVE Concat(_)
Concat(ss) == IF ss = <<>> THEN <<>> ELSE Head(ss) \o Concat(Tail(ss))

\* A variant that drops the left rows without a match (how="inner").
MergeInner(left, right, lk, rk) ==
    Concat([a \in 1..Len(left) |->
        LET ms == SelectSeq(right, LAMBDA r : r[rk] = left[a][lk]) IN
        [j \in 1..Len(ms) |-> Combine(left[a], ms[j])]])

\* left.merge(right, left_on=lk, right_on=rk, how="left")
MergeLeft(left, right, lk, rk) ==
    Concat([a \in 1..Len(left) |->
        LET ms == SelectSeq(right, LAMBDA r : r[rk] = left[a][lk]) IN
        IF ms = <<>> THEN <<Combine(left[a], NullRow(RightCols))>>
        ELSE [j \in 1..Len(ms) |-> Combine(left[a], ms[j])]])

\* merged_gdf[data_id_column].notna().sum()
MatchedCount(rows) ==
    Len(SelectSeq(rows, LAMBDA r : r[data_id_column] # NaN))

\* A variant that checks the shapefile path only.
MissingShapefileOnly(shp, csv) == IF ~shp THEN "shapefile" ELSE "none"

\* Lines 40-44: the path whose absence raises FileNotFoundError.
MissingInput(shp, csv) ==
    IF ~shp THEN "shapefile" ELSE IF ~csv THEN "data" ELSE "none"

MergedFrame ==
    MergeLeft(NormalizeBoundaries(ReadShapefile(boundaries)),
              NormalizeTable(ReadCsv(table)),
              geoid_column, data_id_column)

\* What loading, merging and saving do once both paths were found; read_csv
\* itself raises FileNotFoundError for a path that does not exist.
LoadMergeSave ==
    IF ~csv_exists
    THEN /\ raised' = "FileNotFoundError"
         /\ effects' = <<"read_file">>
         /\ UNCHANGED <<merged, report>>
    ELSE /\ raised' = "none"
         /\ merged' = MergedFrame
         /\ report' = [matched |-> MatchedCount(MergedFrame), total |-> Len(MergedFrame)]
         /\ effects' = <<"read_file", "read_csv", "mkdir", "to_file">>

BoundaryKeys ==
    { PStr(<<"0", "1">>), PStr(<<"1", "0">>), PStr(<<"1">>), PInt(10) }

CellTexts ==
    { <<"0", "1", ".", "0">>, <<"1", "0", ".", "0">>, <<"1", "0">>,
      <<"1", ".", "5">>, <<"X", "1">>, <<>> }

KeyColumnNames == {"ID", "GEOID"}

InitMerge ==
    /\ pc = "merge"
    /\ shp_exists \in BOOLEAN
    /\ csv_exists \in BOOLEAN
    /\ boundaries \in SeqsUpTo(BoundaryKeys, MaxBoundaries)
    /\ table \in SeqsUpTo(CellTexts, MaxRows)
    /\ geoid_column = "GEOID"
    /\ data_id_column \in KeyColumnNames
    /\ effects = <<>>
    /\ merged = <<>>
    /\ report = [matched |-> 0, total |-> 0]
    /\ raised = "none"
    /\ IdleNorm
    /\ ids = <<>>
    /\ delay = API_REQUEST_DELAY
    /\ i = 1
    /\ data_list = <<>>
    /\ log = <<>>
    /\ lastResp = NoResp
    /\ lastRet = NoCall
    /\ outcomes = <<>>
    /\ result = NoResult
    /\ saved = <<>>

\* merge_data_with_shapefile(shapefile_path, data_path, output_path, ...)
Merge ==
    /\ pc = "merge"
    /\ IF MissingInput(shp_exists, csv_exists) # "none"
       THEN /\ raised' = "FileNotFoundError"
            /\ UNCHANGED <<effects, merged, report>>
       ELSE LoadMergeSave
    /\ pc' = "merged"
    /\ UNCHANGED <<shp_exists, csv_exists, boundaries, table, geoid_column, data_id_column>>
    /\ UNCHANGED <<fetchVarsButPc, normVars>>

NextMerge == Merge

SpecMerge == InitMerge /\ [][NextMerge]_vars

(***************************************************************************)
(* The normalizer applied to one raw value                                 *)
(***************************************************************************)
NormChars == {"0", "1", Dot}

NormInputs ==
    {PStr(s) : s \in SeqsUpTo(NormChars, MaxStrLen)}
    \cup {PInt(0), PInt(10), PInt(101)}
    \cup {PFloat(1, <<>>), PFloat(10, <<>>), PFloat(1, <<"5">>), NaN}

InitNorm ==
    /\ pc = "normalize"
    /\ nraw \in NormInputs
    /\ nout = <<>>
    /\ IdleMerge
    /\ ids = <<>>
    /\ delay = API_REQUEST_DELAY
    /\ i = 1
    /\ data_list = <<>>
    /\ log = <<>>
    /\ lastResp = NoResp
    /\ lastRet = NoCall
    /\ outcomes = <<>>
    /\ result = NoResult
    /\ saved = <<>>

\* The table side, applied once and applied again to its own result.
NormalizeTableSide ==
    /\ pc = "normalize"
    /\ nout' = <<NormalizeTableValue(nraw), NormalizeTableValue(NormalizeTableValue(nraw))>>
    /\ pc' = "table_normalized"
    /\ UNCHANGED <<nraw, fetchVarsButPc, mergeVars>>

\* The boundary side.
NormalizeBoundarySide ==
    /\ pc = "normalize"
    /\ nout' = <<NormalizeBoundaryValue(nraw)>>
    /\ pc' = "boundary_normalized"
    /\ UNCHANGED <<nraw, fetchVarsButPc, mergeVars>>

NextNorm == NormalizeTableSide \/ NormalizeBoundarySide

SpecNorm == InitNorm /\ [][NextNorm]_vars

(***************************************************************************)
(* The whole program: one of the entry points runs.                        *)
(***************************************************************************)
Init == InitBatch \/ InitFetch \/ InitMerge \/ InitNorm
Next == NextBatch \/ NextFetch \/ NextMerge \/ NextNorm
Spec == Init /\ [][Next]_vars

(***************************************************************************)
(* Properties of the batch collector and of a single fetch                 *)
(***************************************************************************)
\* A per-identifier Failure: network error, timeout or a non-2xx status.
IsFailure(resp) ==
    \/ resp.kind \in {"connection_error", "timeout"}
    \/ resp.kind = "response" /\ ~(resp.status \in 200..299)

\* The block-group GETs of the log, in order.
BgGets == SelectSeq(log, LAMBDA e : e.op = "get" /\ e.params.areatype = "blockgroup")

\* The batch loop's part of the log: its GETs and its sleeps.
BatchLog == SelectSeq(log, LAMBDA e : e.op = "sleep" \/ e.params.areatype = "blockgroup")

\* Whether fetch_multiple_block_groups has returned.
BatchReturned == result # NoResult

\* The positions of the input whose fetch did not fail, in input order.
OkPositions == SelectSeq([k \in 1..Len(outcomes) |-> k], LAMBDA k : ~IsFailure(outcomes[k]))

\* C1: the batch requests each identifier once, in input order, a failed
\* fetch (network error, timeout, non-2xx) never ends the loop, and the frame
\* returned holds one row per identifier whose fetch did not fail, in input
\* order.
C1_BatchOrderedPartialFailure ==
    /\ Len(BgGets) <= Len(ids)
    /\ \A k \in 1..Len(BgGets) : BgGets[k] = GetEvent(BgParams(ids[k]))
    /\ (pc = "raised" => ~IsFailure(lastResp))
    /\ BatchReturned =>
          /\ Len(BgGets) = Len(ids)
          /\ Len(outcomes) = Len(ids)
          /\ Len(result.rows) = Len(OkPositions)
          /\ Len(result.rows) <= Len(ids)
          /\ \A j \in 1..Len(OkPositions) :
                result.rows[j].area_id = ids[OkPositions[j]]

\* C1 witness: three identifiers, the second fetch fails, two rows returned.
C1_Witness ==
    /\ pc = "returned"
    /\ Len(ids) = 3
    /\ ids[1] # ids[3]
    /\ ~IsFailure(outcomes[1]) /\ IsFailure(outcomes[2]) /\ ~IsFailure(outcomes[3])
    /\ Len(result.rows) = 2
    /\ result.rows[1].area_id = ids[1]
    /\ result.rows[2].area_id = ids[3]

\* What fetch_multiple_block_groups returns for the empty input sequence.
NoIdsResult == ReturnFrame(<<>>)

\* C2: a batch in which every fetch failed returns a result that differs
\* from the result returned when no identifier was requested.
C2_AllFailedDistinguishable ==
    (/\ BatchReturned
     /\ Len(ids) > 0
     /\ \A k \in 1..Len(outcomes) : IsFailure(outcomes[k]))
    => result # NoIdsResult

\* C3: a single fetch never raises; a network error, timeout or error status
\* gives None; a success status with any JSON body gives a row carrying the
\* area identifier and the eight fixed fields.
C3_FetchNeverRaises ==
    lastRet # NoCall =>
        /\ lastRet.how = "return"
        /\ IsFailure(lastResp) => lastRet.v = None
        /\ (~IsFailure(lastResp) /\ lastResp.body \in JsonBodies) =>
              /\ DOMAIN lastRet.v = {RowColumns[k] : k \in 1..Len(RowColumns)}
              /\ lastRet.v.area_id = log[Len(log)].params.areaid

\* C4: n - 1 sleeps of `delay` for n >= 1 identifiers and none for n = 0;
\* the k-th sleep lies between request k and request k + 1, whatever the
\* outcome of request k, and no sleep follows the last request.
C4_SleepBetweenRequests ==
    /\ \A p \in 1..Len(BatchLog) :
          BatchLog[p].op = "sleep" =>
            /\ p % 2 = 0
            /\ p < 2 * Len(ids)
            /\ BatchLog[p] = SleepEvent(delay)
            /\ BatchLog[p - 1].op = "get"
    /\ BatchReturned =>
          /\ Len(BatchLog) = IF Len(ids) = 0 THEN 0 ELSE 2 * Len(ids) - 1
          /\ \A k \in 1..Len(ids) : BatchLog[2 * k - 1] = GetEvent(BgParams(ids[k]))
          /\ \A k \in 1..(Len(ids) - 1) : BatchLog[2 * k] = SleepEvent(delay)

\* C4 witness: three requests, the first failed and the second succeeded,
\* two sleeps taken.
C4_Witness ==
    /\ pc = "returned"
    /\ Len(ids) = 3
    /\ IsFailure(outcomes[1]) /\ ~IsFailure(outcomes[2])
    /\ Len(SelectSeq(log, LAMBDA e : e.op = "sleep")) = 2
    /\ log[2] = SleepEvent(delay) /\ log[4] = SleepEvent(delay)

(***************************************************************************)
(* Properties of the merge and of the normalizer                           *)
(***************************************************************************)
\* The string up to, not including, its first '.' (the whole string if none).
TruncAtDot(s) ==
    LET dots == {p \in 1..Len(s) : s[p] = Dot} IN
    IF dots = {} THEN s
    ELSE SubSeq(s, 1, (CHOOSE p \in dots : \A q \in dots : p <= q) - 1)

MergeDone == pc = "merged"
MergeSucceeded == pc = "merged" /\ raised = "none"

\* The join keys of the two inputs: the string form of each boundary value,
\* and the truncated string form of each table value as loaded.
BoundaryKey(a) == PStr(PyStr(boundaries[a]))
TableKey(k) == PStr(TruncAtDot(PyStr(ReadCsvColumn(table)[k])))

\* Columns of the output that come from the table only.
TableOnlyCols == RightCols \ LeftCols

\* C5: a missing boundary path or table path makes merge raise
\* FileNotFoundError before anything is loaded, created or written.
C5_MissingInputFailsFast ==
    (MergeDone /\ (~shp_exists \/ ~csv_exists)) =>
        /\ raised = "FileNotFoundError"
        /\ effects = <<>>
        /\ merged = <<>>
        /\ report = [matched |-> 0, total |-> 0]

\* C5 witness: the boundary path exists, the table path does not.
C5_Witness ==
    /\ MergeDone
    /\ shp_exists /\ ~csv_exists
    /\ boundaries # <<>>
    /\ raised = "FileNotFoundError"
    /\ effects = <<>>

\* C6: when no two table rows have the same join key, the output has exactly
\* as many rows as the boundary input.
C6_LeftJoinCardinality ==
    (/\ MergeSucceeded
     /\ \A k1, k2 \in 1..Len(table) : TableKey(k1) = TableKey(k2) => k1 = k2)
    => Len(merged) = Len(boundaries)

\* C6 witness: a repeated boundary identifier that has a table row, next to
\* a second table row that matches nothing.
C6_Witness ==
    /\ MergeSucceeded
    /\ Len(boundaries) = 2 /\ Len(table) = 2
    /\ BoundaryKey(1) = BoundaryKey(2)
    /\ TableKey(1) = BoundaryKey(1)
    /\ TableKey(2) # BoundaryKey(1)
    /\ Len(merged) = 2

\* C7: left outer join on the normalized keys: every boundary is in the
\* output with its geometry and its key, every output row is a boundary's,
\* a boundary matching a table row carries that row's columns, and an
\* unmatched boundary carries null in every table-sourced column.
C7_LeftOuterJoin ==
    MergeSucceeded =>
        LET T == ReadCsv(table)
            IsRowOf(m, a) ==
                /\ merged[m][GeometryColumn] = Geometry(a)
                /\ merged[m][geoid_column] = BoundaryKey(a)
            Carries(m, k) ==
                \A c \in TableOnlyCols :
                    merged[m][c] = IF c = data_id_column THEN TableKey(k) ELSE T[k][c]
        IN /\ \A a \in 1..Len(boundaries) : \E m \in 1..Len(merged) : IsRowOf(m, a)
           /\ \A m \in 1..Len(merged) :
                /\ DOMAIN merged[m] = LeftCols \cup RightCols
                /\ \E a \in 1..Len(boundaries) : IsRowOf(m, a)
           /\ \A a \in 1..Len(boundaries), k \in 1..Len(table) :
                BoundaryKey(a) = TableKey(k) =>
                    \E m \in 1..Len(merged) : IsRowOf(m, a) /\ Carries(m, k)
           /\ \A a \in 1..Len(boundaries) :
                (\A k \in 1..Len(table) : BoundaryKey(a) # TableKey(k)) =>
                    \A m \in 1..Len(merged) :
                        IsRowOf(m, a) => \A c \in TableOnlyCols : merged[m][c] = NaN

\* C7 witness: the first boundary matches the table row written "10.0", the
\* second matches nothing and carries nulls.
C7_Witness ==
    /\ MergeSucceeded
    /\ geoid_column # data_id_column
    /\ Len(boundaries) = 2 /\ Len(table) = 1
    /\ table[1] = <<"1", "0", ".", "0">>
    /\ BoundaryKey(1) = TableKey(1)
    /\ BoundaryKey(2) # TableKey(1)
    /\ Len(merged) = 2
    /\ merged[1][ValueColumn] = PInt(1)
    /\ merged[2][ValueColumn] = NaN
    /\ merged[2][data_id_column] = NaN

\* Boundary identifiers that are zero-padded digit strings of width 2.
IsPadded(v) == v.t = "str" /\ Len(v.s) = 2 /\ \A p \in 1..2 : v.s[p] \in DigitSet

\* C8: boundaries keyed by zero-padded strings and a table whose keys are
\* written "<identifier>.0" for a subset M of them: one output row per
\* boundary, the rows of M carry their table row's value and the others
\* null, matched_count = |M| and total = number of boundaries.
C8_EndToEndPadded ==
    (/\ MergeSucceeded
     /\ geoid_column # data_id_column
     /\ \A a \in 1..Len(boundaries) : IsPadded(boundaries[a])
     /\ \A a, b \in 1..Len(boundaries) : boundaries[a] = boundaries[b] => a = b
     /\ \A k \in 1..Len(table) :
          \E a \in 1..Len(boundaries) : table[k] = boundaries[a].s \o <<Dot, "0">>
     /\ \A k1, k2 \in 1..Len(table) : table[k1] = table[k2] => k1 = k2)
    =>
    /\ Len(merged) = Len(boundaries)
    /\ report = [matched |-> Len(table), total |-> Len(boundaries)]
    /\ \A a \in 1..Len(boundaries) :
          /\ merged[a][geoid_column] = boundaries[a]
          /\ \A k \in 1..Len(table) :
                table[k] = boundaries[a].s \o <<Dot, "0">> => merged[a][ValueColumn] = PInt(k)
          /\ (\A k \in 1..Len(table) : table[k] # boundaries[a].s \o <<Dot, "0">>)
                => merged[a][ValueColumn] = NaN

\* C9: whatever the two key column names, the reported matched_count is the
\* number of output rows whose boundary found a table row, and the reported
\* total is the number of output rows.
C9_MatchedCountIsMatches ==
    MergeSucceeded =>
        /\ report.total = Len(merged)
        /\ report.matched =
             Cardinality({<<a, k>> \in (1..Len(boundaries)) \X (1..Len(table)) :
                            BoundaryKey(a) = TableKey(k)})

IsDigits(s) == s # <<>> /\ \A p \in 1..Len(s) : s[p] \in DigitSet

\* C10: the table side returns the string form cut at its first '.', so
\* "<digits>.0" gives "<digits>", a string without '.' is returned as it is
\* (leading zeros kept), and a second application changes nothing; the
\* boundary side returns the string form, uncut.
C10_Normalize ==
    /\ pc = "table_normalized" =>
          LET s == PyStr(nraw) IN
          /\ nout[1] = PStr(TruncAtDot(s))
          /\ \A d \in SeqsUpTo(DigitSet \cap NormChars, MaxStrLen) :
                (IsDigits(d) /\ s = d \o <<Dot, "0">>) => nout[1] = PStr(d)
          /\ (nraw.t = "str" /\ \A p \in 1..Len(s) : s[p] # Dot) => nout[1] = nraw
          /\ nout[2] = nout[1]
    /\ pc = "boundary_normalized" =>
          /\ nout[1].t = "str"
          /\ nout[1].s = PyStr(nraw)
          /\ nraw.t = "str" => nout[1] = nraw

\* C10 witness: "01.0" normalized to "01" on the table side.
C10_Witness ==
    /\ pc = "table_normalized"
    /\ nraw = PStr(<<"0", "1", Dot, "0">>)
    /\ nout = <<PStr(<<"0", "1">>), PStr(<<"0", "1">>)>>

====
